---- MODULE Spec2Model ----
(***************************************************************************)
(* The AMQP 1.0 Session multiplexing layer of                              *)
(* azure/servicebus/_pyamqp/session.py, as a state machine.                *)
(*                                                                         *)
(* One Session object is modelled.  Its fields are the variables; every    *)
(* public method and every frame handler is one action.  The Connection    *)
(* and the Links are collaborators: the frames the Session hands to        *)
(* Connection._process_outgoing_frame during one operation are recorded in *)
(* `out`, the Link methods it invokes during one operation in `calls`, and *)
(* the operation itself (name, session state before it, outcome, argument) *)
(* in `last_op`.                                                           *)
(***************************************************************************)
EXTENDS Integers, Sequences, FiniteSets

(***************************************************************************)
(* Bounds of the model.                                                    *)
(***************************************************************************)
\* Largest window / transfer-id value carried by an inbound Begin or Flow.
MaxWin == 2
\* Cap on accepted outgoing transfers (next_outgoing_id is unbounded in the code).
MaxTransfers == 3
\* Cap on how far inbound transfers may drive a window below zero.
MaxNeg == 1
\* Cap on the number of links held by the session in the full specification.
MaxLinks == 2
\* Cap on the number of links in the handle-table specification.
MaxHandleLinks == 4
\* Cap on the number of links in the inbound-frame specification.
MaxPeerLinks == 1
\* Cap on the number of links in the attach and flow routing specification.
MaxFlowLinks == 2
\* The model's integers end at 2^31 - 1, so 2^32 - 1 cannot be written down.
\* UInt32Top is the value that stands for it where the top of the unsigned
\* 32-bit range matters: the counters are Python integers, which the model
\* adds to without a width, and UInt32Top + 1 still fits the model's integers.
UInt32Top == 2147483640
\* Peer-assigned handles range over 0..MaxRemoteHandle.
MaxRemoteHandle == 2
\* Payload sizes 0..MaxPayload are all tried (plus the sizes of ExtraPayloadSizes).
MaxPayload == 4
\* How many frames of a fragmentation loop that never ends are recorded in
\* `out`: the first MaxLoopFrames of the endless sequence.
MaxLoopFrames == 3
\* The peer's max-frame-size, held by the Connection (_remote_max_frame_size).
RemoteMaxFrameSize == 64

(***************************************************************************)
(* Program constants.                                                      *)
(***************************************************************************)
\* Python's None, for fields whose other values are non-negative integers.
None == -1
\* Session.__init__: handle_max defaults to 4294967295 (2^32 - 1).  The model
\* checker's integers end at 2^31 - 1, which stands for it here: the value is
\* only ever compared with handle numbers and handle counts, all far below it.
DefaultHandleMax == 2147483647
\* _outgoing_transfer: the 8-byte frame header subtracted from the frame size.
FrameHeaderSize == 8

SessionStates ==
    {"UNMAPPED", "BEGIN_SENT", "BEGIN_RCVD", "MAPPED", "END_SENT", "END_RCVD", "DISCARDING"}

\* ConnectionState values a Connection may report to _on_connection_state_change.
ConnectionStates == {"OPENED", "CLOSE_RCVD", "END"}

\* Link names used by callers and by the peer.
Names == {"a", "b"}

Roles == {"Sender", "Receiver"}

RemoteHandles == 0 .. MaxRemoteHandle

\* Encoded sizes of a Transfer performative with an empty payload: chosen so
\* that the per-frame capacity ranges over -1, 0, 1, 2, 3 and 10.
Overheads == {RemoteMaxFrameSize - FrameHeaderSize - a : a \in {-1, 0, 1, 2, 3, 10}}

ExtraPayloadSizes == {13, 40}

PayloadSizes == (0 .. MaxPayload) \cup ExtraPayloadSizes

\* A payload of n bytes; byte i has value i, so any loss, duplication or
\* reordering of bytes by the fragmentation is visible.
Payload(n) == [i \in 1 .. n |-> i]

VARIABLES
    state,                   \* SessionState
    handle_max,
    remote_channel,          \* None until assigned
    next_outgoing_id,
    next_incoming_id,        \* None until the peer's Begin / Flow
    incoming_window,
    outgoing_window,
    target_incoming_window,
    remote_incoming_window,
    remote_outgoing_window,
    links,                   \* link key (<<"str"|"bytes", name>>) -> link id
    links_keys,              \* the keys of links, in the order the dict holds them
    _output_handles,         \* local handle -> link id
    _output_handles_keys,    \* the keys of _output_handles, in dict order
    _input_handles,          \* peer handle -> link id
    _input_handles_keys,     \* the keys of _input_handles, in dict order
    link_objs,               \* link id -> the Link object's fields
    delivery,                \* the delivery object last passed to _outgoing_transfer
    hung,                    \* TRUE when a handler is in a loop it never leaves
    waiting,                 \* the _wait_for_response loop begin()/end() is in, if any
    out,                     \* frames handed to the Connection by the last operation
    calls,                   \* Link methods invoked by the last operation
    last_op,                 \* the last operation: [op, pre, res, arg]
    run                      \* the accepted outgoing transfers since the last other
                             \* operation: their number and the counters before them

session_vars ==
    <<state, handle_max, remote_channel, next_outgoing_id, next_incoming_id,
      incoming_window, outgoing_window, target_incoming_window,
      remote_incoming_window, remote_outgoing_window>>

\* The three dicts of the session: each is a function with the sequence of its
\* keys in insertion order, the order Python iterates it in.
links_dict == <<links, links_keys>>

_output_handles_dict == <<_output_handles, _output_handles_keys>>

_input_handles_dict == <<_input_handles, _input_handles_keys>>

link_vars == <<links_dict, _output_handles_dict, _input_handles_dict, link_objs>>

vars == <<session_vars, link_vars, delivery, hung, waiting, out, calls, last_op, run>>

(***************************************************************************)
(* Helpers.                                                                *)
(***************************************************************************)
Min(a, b) == IF a < b THEN a ELSE b

EmptyMap == [k \in {} |-> 0]

\* f with key k bound to v (a Python dict assignment d[k] = v).
Put(f, k, v) == [x \in DOMAIN f \cup {k} |-> IF x = k THEN v ELSE f[x]]

Range(f) == {f[k] : k \in DOMAIN f}

\* The keys of a dict after d[k] = v: a new key goes last, a key already held
\* keeps its place.
PutKey(keys, f, k) == IF k \in DOMAIN f THEN keys ELSE Append(keys, k)

\* d.values(): the values of f in the order of its keys.
Values(f, keys) == [i \in 1 .. Len(keys) |-> f[keys[i]]]

Count(seq, type) == Len(SelectSeq(seq, LAMBDA f : f.type = type))

Op(name, pre, res, arg) == [op |-> name, pre |-> pre, res |-> res, arg |-> arg]

\* No begin() or end() call is inside _wait_for_response.
NotWaiting == [op |-> "none", end_state |-> "none", wait |-> "none"]

\* A method of the Session's API may be called: no earlier call is still
\* running (the Session is driven by one thread).
Idle == ~hung /\ waiting = NotWaiting

NoDelivery == [payload |-> <<>>, delivery_id |-> None, transfer_state |-> "NONE", handle |-> None]

Call(id, method) == [link |-> id, call |-> method]

(***************************************************************************)
(* The Link collaborator (sender.py / receiver.py / link.py): only what    *)
(* the Session needs of it.  A Link object has a name, a role, the local    *)
(* handle it was constructed with, and records whether detach() or         *)
(* _incoming_detach() reached it and whether it closed.                    *)
(***************************************************************************)
NewLink(name, role, handle) ==
    [name |-> name, role |-> role, handle |-> handle,
     detached |-> FALSE, is_closed |-> FALSE]

\* Link.detach() on every link of `ids`.
DetachAll(objs, ids) ==
    [id \in DOMAIN objs |->
        IF id \in ids THEN [objs[id] EXCEPT !.detached = TRUE] ELSE objs[id]]

\* Link._incoming_detach(frame): the link is detached, and closed when the
\* peer's Detach says closed.
LinkIncomingDetach(obj, closed) ==
    [obj EXCEPT !.detached = TRUE, !.is_closed = (obj.is_closed \/ closed)]

\* The Link methods one pass of `for _, link in self.links.items(): link.detach()`
\* invokes, in the order of the dict.
DetachCalls == [i \in 1 .. Len(links_keys) |-> Call(links[links_keys[i]], "detach")]

\* _set_state(new_state): after the state is assigned, every link of links is
\* told, `for link in self.links.values(): link._on_session_state_change()`.
SetStateCalls ==
    [i \in 1 .. Len(links_keys) |-> Call(links[links_keys[i]], "_on_session_state_change")]

(***************************************************************************)
(* Frames handed to the Connection.                                        *)
(***************************************************************************)
\* The desired_capabilities the session was constructed with.
DesiredCapabilities == "desired"

\* _outgoing_begin, sent while the session state is st.
BeginFrame(st, rc, hm) ==
    [type |-> "begin",
     remote_channel |-> IF st = "BEGIN_RCVD" THEN rc ELSE None,
     desired_capabilities |-> IF st = "UNMAPPED" THEN DesiredCapabilities ELSE "None",
     next_outgoing_id |-> next_outgoing_id,
     outgoing_window |-> outgoing_window,
     incoming_window |-> incoming_window,
     handle_max |-> hm]

\* _outgoing_end
EndFrame(error) == [type |-> "end", error |-> error]

\* _outgoing_flow: a link's flow frame (handle h) or none (h = None),
\* completed with the session-level fields.
FlowFrame(h, nii, iw, noi, ow) ==
    [type |-> "flow", handle |-> h, next_incoming_id |-> nii, incoming_window |-> iw,
     next_outgoing_id |-> noi, outgoing_window |-> ow]

(***************************************************************************)
(* Init: the state after Session.__init__.                                 *)
(***************************************************************************)
\* The local channel number given to the constructor.
channel == 0

\* Session.__init__ with incoming_window in iws, outgoing_window in ows and
\* handle_max in hms (next_outgoing_id left at its default 0).
InitWith(iws, ows, hms) ==
    /\ state = "UNMAPPED"
    /\ handle_max \in hms
    /\ remote_channel = None
    /\ next_outgoing_id = 0
    /\ next_incoming_id = None
    /\ incoming_window \in iws
    /\ outgoing_window \in ows
    /\ target_incoming_window = incoming_window
    /\ remote_incoming_window = 0
    /\ remote_outgoing_window = 0
    /\ links = EmptyMap
    /\ links_keys = <<>>
    /\ _output_handles = EmptyMap
    /\ _output_handles_keys = <<>>
    /\ _input_handles = EmptyMap
    /\ _input_handles_keys = <<>>
    /\ link_objs = EmptyMap
    /\ delivery = NoDelivery
    /\ hung = FALSE
    /\ waiting = NotWaiting
    /\ out = <<>>
    /\ calls = <<>>
    /\ last_op = Op("init", "UNMAPPED", "ok", None)
    /\ run = [n |-> 0, next_outgoing_id |-> next_outgoing_id,
              remote_incoming_window |-> remote_incoming_window,
              outgoing_window |-> outgoing_window]

\* Every operation but an accepted outgoing transfer starts a new run of
\* transfers, from the counters it leaves.
ResetRun ==
    run' = [n |-> 0, next_outgoing_id |-> next_outgoing_id',
            remote_incoming_window |-> remote_incoming_window',
            outgoing_window |-> outgoing_window']

(***************************************************************************)
(* Session state machine.                                                  *)
(***************************************************************************)
\* The values of the `wait` argument of begin() and end(): False, a number of
\* seconds, True.
Waits == {"no", "timed", "forever"}

\* The wait loop a call of `op` enters with the given wait argument:
\* _wait_for_response(wait, end_state) polls until the state is end_state.
WaitFor(op, end_state, wait) ==
    IF wait = "no" THEN NotWaiting
    ELSE [op |-> op, end_state |-> end_state, wait |-> wait]

\* begin(wait), allow_pipelined_open left at its default True.  With a wait the
\* call goes on in _wait_for_response, whose target state is BEGIN_SENT.
BeginCall(wait) ==
    /\ Idle
    /\ out' = <<BeginFrame(state, remote_channel, handle_max)>>
    /\ state' = "BEGIN_SENT"
    /\ calls' = SetStateCalls
    /\ last_op' = Op("begin", state, "ok", None)
    /\ UNCHANGED <<handle_max, remote_channel, next_outgoing_id, next_incoming_id,
                   incoming_window, outgoing_window, target_incoming_window,
                   remote_incoming_window, remote_outgoing_window, link_vars, hung>>
    /\ waiting' = WaitFor("begin", "BEGIN_SENT", wait)
    /\ delivery' = NoDelivery
    /\ ResetRun

\* begin(wait=False)
Begin == BeginCall("no")

\* Begin frames of a peer, frame[0..4], with the given field values.
BeginFrames(rcs, nois, iws, ows, hms) ==
    [remote_channel : rcs, next_outgoing_id : nois, incoming_window : iws,
     outgoing_window : ows, handle_max : hms]

\* A session that answers every Begin with a Begin of its own.
IncomingBeginRepliesAlways(st) == TRUE

\* Whether _incoming_begin replies with a Begin: only when none was sent.
IncomingBeginReplies(st) == st = "UNMAPPED"

\* A session that replies to the peer's Begin before recording that it
\* received one.
IncomingBeginReplyStateStale(st) == st

\* The state _incoming_begin has set when it calls _outgoing_begin to reply.
IncomingBeginReplyState(st) == "BEGIN_RCVD"

\* The session state after _incoming_begin, from the state before it.
IncomingBeginState(st) ==
    IF st \in {"BEGIN_SENT", "UNMAPPED"} THEN "MAPPED" ELSE st

\* _incoming_begin(frame): _set_state is called once from BEGIN_SENT, twice
\* (BEGIN_RCVD, MAPPED) from UNMAPPED and not at all from any other state.
IncomingBegin(f) ==
    /\ ~hung
    /\ handle_max' = f.handle_max
    /\ next_incoming_id' = f.next_outgoing_id
    /\ remote_incoming_window' = f.incoming_window
    /\ remote_outgoing_window' = f.outgoing_window
    /\ remote_channel' = IF state = "BEGIN_SENT" THEN f.remote_channel ELSE remote_channel
    /\ state' = IncomingBeginState(state)
    /\ out' = IF IncomingBeginReplies(state)
              THEN <<BeginFrame(IncomingBeginReplyState(state), remote_channel,
                                f.handle_max)>>
              ELSE <<>>
    /\ calls' = CASE state = "BEGIN_SENT" -> SetStateCalls
                  [] state = "UNMAPPED" -> SetStateCalls \o SetStateCalls
                  [] OTHER -> <<>>
    /\ last_op' = Op("incoming_begin", state, "ok", f)
    /\ UNCHANGED <<next_outgoing_id, incoming_window, outgoing_window,
                   target_incoming_window, link_vars, hung, waiting>>
    /\ delivery' = NoDelivery
    /\ ResetRun

\* Whether end() hands an End frame to the Connection when the state is st.
EndSendsFrame(st) == st \notin {"UNMAPPED", "DISCARDING"}

\* A session that records END_SENT whether or not an error is supplied.
EndNewStateAlwaysSent(error) == "END_SENT"

\* The state end(error) leaves when nothing raises.
EndNewState(error) == IF error # "none" THEN "DISCARDING" ELSE "END_SENT"

\* A handler that swallows the exception and leaves the state as it found it.
CaughtStateKept(st) == st

\* The state the `except Exception` handler of end() sets, whatever the
\* state st was when the exception was raised.
CaughtState(st) == "UNMAPPED"

\* The Link methods end() invokes: the detach() calls made until one raises,
\* then the _set_state of the new state or, after an exception, of UNMAPPED.
EndCalls(fault) ==
    CASE fault = "none" -> DetachCalls \o SetStateCalls
      [] fault = "detach" -> <<DetachCalls[1]>> \o SetStateCalls
      [] OTHER -> SetStateCalls

\* The body of end(error, wait=False) run from session state st, the handler
\* that calls it having made the Link calls `before`; fault names the
\* collaborator call that raises, if any ("send": the Connection refuses the
\* frame; "detach": the first link.detach() raises).  Every exception is
\* caught and the state set to UNMAPPED.
EndBody(st, error, fault, before) ==
    /\ fault = "send" => EndSendsFrame(st)
    /\ fault = "detach" => links # EmptyMap
    /\ out' = IF EndSendsFrame(st) /\ fault # "send" THEN <<EndFrame(error)>> ELSE <<>>
    /\ calls' = before \o EndCalls(fault)
    /\ link_objs' = IF fault = "none" THEN DetachAll(link_objs, Range(links)) ELSE link_objs
    /\ state' = IF fault = "none" THEN EndNewState(error) ELSE CaughtState(st)

Errors == {"none", "amqp:internal-error"}

Faults == {"none", "send", "detach"}

\* end(error, wait).  When nothing raised, a call with a wait goes on in
\* _wait_for_response, whose target state is UNMAPPED.
EndCall(error, fault, wait) ==
    /\ Idle
    /\ EndBody(state, error, fault, <<>>)
    /\ last_op' = Op("end", state, IF fault = "none" THEN "ok" ELSE "caught", error)
    /\ UNCHANGED <<handle_max, remote_channel, next_outgoing_id, next_incoming_id,
                   incoming_window, outgoing_window, target_incoming_window,
                   remote_incoming_window, remote_outgoing_window,
                   links_dict, _output_handles_dict, _input_handles_dict, hung>>
    /\ waiting' = IF fault = "none" THEN WaitFor("end", "UNMAPPED", wait) ELSE NotWaiting
    /\ delivery' = NoDelivery
    /\ ResetRun

\* end(error, wait=False)
End(error, fault) == EndCall(error, fault, "no")

\* A session that takes only END_SENT to mean its End has been sent.
IncomingEndRepliesUnlessSent(st) == st # "END_SENT"

\* Whether _incoming_end detaches the links and replies with an End.
IncomingEndReplies(st) == st \notin {"END_RCVD", "END_SENT", "DISCARDING"}

\* _incoming_end(frame): _set_state(END_RCVD), the detach() calls and the End
\* when it replies, and _set_state(UNMAPPED) in every case.
IncomingEnd ==
    /\ ~hung
    /\ out' = IF IncomingEndReplies(state) THEN <<EndFrame("none")>> ELSE <<>>
    /\ calls' = IF IncomingEndReplies(state)
                THEN SetStateCalls \o DetachCalls \o SetStateCalls
                ELSE SetStateCalls
    /\ link_objs' = IF IncomingEndReplies(state)
                    THEN DetachAll(link_objs, Range(links)) ELSE link_objs
    /\ state' = "UNMAPPED"
    /\ last_op' = Op("incoming_end", state, "ok", None)
    /\ UNCHANGED <<handle_max, remote_channel, next_outgoing_id, next_incoming_id,
                   incoming_window, outgoing_window, target_incoming_window,
                   remote_incoming_window, remote_outgoing_window,
                   links_dict, _output_handles_dict, _input_handles_dict, hung, waiting>>
    /\ delivery' = NoDelivery
    /\ ResetRun

\* ConnectionState values outside the list _on_connection_state_change tests.
OtherConnectionStates == {"OPEN_SENT", "CLOSE_SENT"}

\* A session that reacts to the Connection's END only.
ConnectionChangeStateOnEnd(st, cs) ==
    IF cs = "END" /\ st \notin {"DISCARDING", "UNMAPPED"} THEN "DISCARDING" ELSE st

\* The session state after the Connection reports state cs.
ConnectionChangeState(st, cs) ==
    IF cs \in {"CLOSE_RCVD", "END"} /\ st \notin {"DISCARDING", "UNMAPPED"}
    THEN "DISCARDING" ELSE st

\* _on_connection_state_change(), the Connection being in state cs.
OnConnectionStateChange(cs) ==
    /\ ~hung
    /\ state' = ConnectionChangeState(state, cs)
    /\ out' = <<>>
    /\ calls' = IF state' # state THEN SetStateCalls ELSE <<>>
    /\ last_op' = Op("connection_state_change", state, "ok", cs)
    /\ UNCHANGED <<handle_max, remote_channel, next_outgoing_id, next_incoming_id,
                   incoming_window, outgoing_window, target_incoming_window,
                   remote_incoming_window, remote_outgoing_window, link_vars, hung, waiting>>
    /\ delivery' = NoDelivery
    /\ ResetRun

(***************************************************************************)
(* _wait_for_response: the loop begin(wait) and end(wait) poll the          *)
(* Connection in.  The inbound handlers run inside its listen() calls.      *)
(***************************************************************************)
\* What leaving the wait loop changes besides the caller's position and the
\* session state: nothing.
WaitLeaves ==
    /\ out' = <<>>
    /\ delivery' = NoDelivery
    /\ UNCHANGED <<handle_max, remote_channel, next_outgoing_id, next_incoming_id,
                   incoming_window, outgoing_window, target_incoming_window,
                   remote_incoming_window, remote_outgoing_window, link_vars, hung>>
    /\ ResetRun

\* The loop condition `self.state != end_state` fails: the call returns.
WaitReturn ==
    /\ ~hung
    /\ waiting # NotWaiting
    /\ state = waiting.end_state
    /\ state' = state
    /\ waiting' = NotWaiting
    /\ last_op' = Op("wait_return", state, "ok", waiting)
    /\ calls' = <<>>
    /\ WaitLeaves

\* A session whose wait gives up by declaring the session unmapped.
TimeoutStateUnmapped(st) == "UNMAPPED"

\* The session state after the wait loop breaks on its timeout.
TimeoutState(st) == st

\* `time.time() >= timeout` in a wait with a number of seconds: the loop
\* breaks and the call returns.
WaitTimeout ==
    /\ ~hung
    /\ waiting # NotWaiting
    /\ waiting.wait = "timed"
    /\ state # waiting.end_state
    /\ state' = TimeoutState(state)
    /\ waiting' = NotWaiting
    /\ last_op' = Op("wait_timeout", state, "ok", waiting)
    /\ calls' = <<>>
    /\ WaitLeaves

\* connection.listen() raises inside the wait loop: end() catches it and
\* calls _set_state(UNMAPPED), begin() lets it through.
WaitPollRaises ==
    /\ ~hung
    /\ waiting # NotWaiting
    /\ state' = IF waiting.op = "end" THEN CaughtState(state) ELSE state
    /\ waiting' = NotWaiting
    /\ last_op' = Op("wait_poll", state,
                     IF waiting.op = "end" THEN "caught" ELSE "raised", waiting)
    /\ calls' = IF waiting.op = "end" THEN SetStateCalls ELSE <<>>
    /\ WaitLeaves

(***************************************************************************)
(* Handle allocation and link creation.                                    *)
(***************************************************************************)
RECURSIVE FirstFree(_, _, _)
\* next(i for i in range(i, hm) if i not in handles); None when the
\* generator is exhausted (Python raises StopIteration).
FirstFree(i, hm, handles) ==
    IF i >= hm THEN None
    ELSE IF i \notin DOMAIN handles THEN i
    ELSE FirstFree(i + 1, hm, handles)

\* The first handle number _get_next_output_handle tries.
FirstHandle == 1

\* _get_next_output_handle(): the handle, or the exception raised.
GetNextOutputHandle(handles, hm) ==
    IF Cardinality(DOMAIN handles) >= hm
    THEN [exc |-> "ValueError", handle |-> None]
    ELSE LET h == FirstFree(FirstHandle, hm, handles)
         IN  IF h = None THEN [exc |-> "StopIteration", handle |-> None]
             ELSE [exc |-> "none", handle |-> h]

\* The names Link.__init__ gives links created without a name (str(uuid4())):
\* the n-th Link object constructed gets the n-th of them.
UuidNames == <<"u1", "u2", "u3", "u4", "u5", "u6">>

\* The identity of the next Link object constructed.
NextLinkId == Cardinality(DOMAIN link_objs) + 1

\* The name of the next link when the caller passes none.
FreshName == UuidNames[NextLinkId]

\* The names under which links are registered, whatever the key's type.
LinkNames == {k[2] : k \in DOMAIN links}

StrKey(name) == <<"str", name>>

BytesKey(name) == <<"bytes", name>>

\* create_sender_link / create_receiver_link, the link named `name`; at most
\* cap links are ever constructed.
CreateLink(role, name, cap) ==
    LET r == GetNextOutputHandle(_output_handles, handle_max)
        id == NextLinkId
    IN  /\ Idle
        /\ r.exc = "none" => Cardinality(DOMAIN link_objs) < cap
        /\ IF r.exc = "none"
           THEN /\ link_objs' = Put(link_objs, id, NewLink(name, role, r.handle))
                /\ links' = Put(links, StrKey(name), id)
                /\ links_keys' = PutKey(links_keys, links, StrKey(name))
                /\ _output_handles' = Put(_output_handles, r.handle, id)
                /\ _output_handles_keys' = PutKey(_output_handles_keys, _output_handles, r.handle)
           ELSE UNCHANGED <<link_objs, links_dict, _output_handles_dict>>
        /\ out' = <<>>
        /\ calls' = <<>>
        /\ delivery' = NoDelivery
        /\ last_op' = Op(IF role = "Sender" THEN "create_sender_link"
                         ELSE "create_receiver_link", state, 
                         IF r.exc = "none" THEN "ok" ELSE r.exc, r.handle)
        /\ UNCHANGED <<session_vars, _input_handles_dict, hung, waiting>>
        /\ ResetRun

CreateSenderLink(name, cap) == CreateLink("Sender", name, cap)

CreateReceiverLink(name, cap) == CreateLink("Receiver", name, cap)

\* A lookup that uses the Attach frame's name as it arrived, undecoded.
AttachLookupKeyUndecoded(name) == BytesKey(name)

\* The key _incoming_attach looks the link up under: frame[0].decode("utf-8").
AttachLookupKey(name) == StrKey(name)

\* The role of the link built for a peer's Attach: the complement of the peer's.
ComplementRole(role) == IF role = "Sender" THEN "Receiver" ELSE "Sender"

\* The Link object built for an Attach it then rejects: it is put in no table
\* of the session, so it has no identity among link_objs.
UnregisteredLink == 0

\* _incoming_attach(frame): frame[0] = name (bytes), frame[1] = handle,
\* frame[2] = role.  reject: the link's own _incoming_attach raises ValueError.
IncomingAttach(name, rh, role, reject, cap) ==
    LET r == GetNextOutputHandle(_output_handles, handle_max)
        id == NextLinkId
    IN  /\ ~hung
        /\ out' = <<>>
        /\ delivery' = NoDelivery
        /\ IF AttachLookupKey(name) \in DOMAIN links
           THEN \* the link exists locally: bind the peer's handle to it
                LET l == links[AttachLookupKey(name)]
                IN  /\ _input_handles' = Put(_input_handles, rh, l)
                    /\ _input_handles_keys' = PutKey(_input_handles_keys, _input_handles, rh)
                    /\ calls' = IF reject
                                THEN <<Call(l, "_incoming_attach"), Call(l, "detach")>>
                                ELSE <<Call(l, "_incoming_attach")>>
                    /\ link_objs' = IF reject THEN DetachAll(link_objs, {l}) ELSE link_objs
                    /\ last_op' = Op("incoming_attach", state, "ok", <<name, rh, role>>)
                    /\ UNCHANGED <<links_dict, _output_handles_dict>>
           ELSE IF r.exc = "ValueError"
           THEN \* no handle: self.links[name].detach(...) raises KeyError again
                /\ ~reject
                /\ calls' = <<>>
                /\ last_op' = Op("incoming_attach", state, "KeyError", <<name, rh, role>>)
                /\ UNCHANGED link_vars
           ELSE IF r.exc = "StopIteration"
           THEN /\ ~reject
                /\ calls' = <<>>
                /\ last_op' = Op("incoming_attach", state, "StopIteration", <<name, rh, role>>)
                /\ UNCHANGED link_vars
           ELSE IF reject
           THEN \* new_link._incoming_attach raises inside the KeyError handler: it
                \* escapes, and the link just built is registered nowhere
                /\ calls' = <<Call(UnregisteredLink, "_incoming_attach")>>
                /\ last_op' = Op("incoming_attach", state, "ValueError", <<name, rh, role>>)
                /\ UNCHANGED link_vars
           ELSE /\ Cardinality(DOMAIN link_objs) < cap
                /\ calls' = <<Call(id, "_incoming_attach")>>
                /\ link_objs' = Put(link_objs, id, NewLink(name, ComplementRole(role), r.handle))
                /\ links' = Put(links, BytesKey(name), id)
                /\ links_keys' = PutKey(links_keys, links, BytesKey(name))
                /\ _output_handles' = Put(_output_handles, r.handle, id)
                /\ _output_handles_keys' = PutKey(_output_handles_keys, _output_handles, r.handle)
                /\ _input_handles' = Put(_input_handles, rh, id)
                /\ _input_handles_keys' = PutKey(_input_handles_keys, _input_handles, rh)
                /\ last_op' = Op("incoming_attach", state, "ok", <<name, rh, role>>)
        /\ UNCHANGED <<session_vars, hung, waiting>>
        /\ ResetRun

\* The error a Session reports for a frame naming an unattached handle.
UnattachedHandle == "amqp:session:unattached-handle"

\* _incoming_detach(frame): frame[0] = handle, frame[1] = closed.
IncomingDetach(rh, closed) ==
    /\ ~hung
    /\ delivery' = NoDelivery
    /\ IF rh \in DOMAIN _input_handles
       THEN /\ link_objs' = [link_objs EXCEPT ![_input_handles[rh]] =
                                LinkIncomingDetach(link_objs[_input_handles[rh]], closed)]
            /\ calls' = <<Call(_input_handles[rh], "_incoming_detach")>>
            /\ out' = <<>>
            /\ state' = state
       ELSE /\ state' = "DISCARDING"
            /\ out' = <<[type |-> "connection_close", error |-> UnattachedHandle]>>
            /\ calls' = SetStateCalls
            /\ UNCHANGED link_objs
    /\ last_op' = Op("incoming_detach", state, "ok", <<rh, closed>>)
    /\ UNCHANGED <<handle_max, remote_channel, next_outgoing_id, next_incoming_id,
                   incoming_window, outgoing_window, target_incoming_window,
                   remote_incoming_window, remote_outgoing_window,
                   links_dict, _output_handles_dict, _input_handles_dict, hung, waiting>>
    /\ ResetRun

\* The Link calls of `for link in self._input_handles.values()`.
DispositionCalls ==
    LET ls == Values(_input_handles, _input_handles_keys)
    IN  [i \in 1 .. Len(ls) |-> Call(ls[i], "_incoming_disposition")]

\* _incoming_disposition(frame)
IncomingDisposition ==
    /\ ~hung
    /\ calls' = DispositionCalls
    /\ out' = <<>>
    /\ delivery' = NoDelivery
    /\ last_op' = Op("incoming_disposition", state, "ok", None)
    /\ UNCHANGED <<session_vars, link_vars, hung, waiting>>
    /\ ResetRun

(***************************************************************************)
(* Flow control.                                                           *)
(***************************************************************************)
\* The delivery object a sender link is still holding when a frame arrives:
\* the one its last _outgoing_transfer call left BUSY, which it will retry.
HeldDelivery == IF delivery.transfer_state = "BUSY" THEN delivery ELSE NoDelivery

\* Flow frames of a peer, frame[0..4], with the given field values.
FlowFrames(niis, iws, nois, ows, hs) ==
    [next_incoming_id : niis, incoming_window : iws, next_outgoing_id : nois,
     outgoing_window : ows, handle : hs]

\* frame[0] or self.next_outgoing_id: None and 0 are both falsy.
RemoteIncomingId(f, noi) ==
    IF f.next_incoming_id = None \/ f.next_incoming_id = 0 THEN noi ELSE f.next_incoming_id

\* remote_incoming_window as _incoming_flow recomputes it.
FlowRemoteIncomingWindow(f, noi) == RemoteIncomingId(f, noi) + f.incoming_window - noi

\* A broadcast that ignores the recomputed window.
FlowBroadcastCallsAnyWindow(riw) ==
    LET ls == SelectSeq(Values(_output_handles, _output_handles_keys),
                        LAMBDA l : ~link_objs[l].is_closed)
    IN  [i \in 1 .. Len(ls) |-> Call(ls[i], "_incoming_flow")]

\* The links a session-level Flow is passed to: those of _output_handles, in
\* the order of the dict, that are not closed, when the recomputed window riw
\* is positive.
FlowBroadcastCalls(riw) ==
    LET ls == SelectSeq(Values(_output_handles, _output_handles_keys),
                        LAMBDA l : riw > 0 /\ ~link_objs[l].is_closed)
    IN  [i \in 1 .. Len(ls) |-> Call(ls[i], "_incoming_flow")]

\* _incoming_flow(frame)
IncomingFlow(f) ==
    /\ ~hung
    /\ next_incoming_id' = f.next_outgoing_id
    /\ remote_incoming_window' = FlowRemoteIncomingWindow(f, next_outgoing_id)
    /\ remote_outgoing_window' = f.outgoing_window
    /\ calls' = IF f.handle # None
                THEN IF f.handle \in DOMAIN _input_handles
                     THEN <<Call(_input_handles[f.handle], "_incoming_flow")>>
                     ELSE <<>>
                ELSE FlowBroadcastCalls(FlowRemoteIncomingWindow(f, next_outgoing_id))
    /\ out' = <<>>
    /\ delivery' = HeldDelivery
    /\ last_op' = Op("incoming_flow", state,
                     IF f.handle # None /\ f.handle \notin DOMAIN _input_handles
                     THEN "KeyError" ELSE "ok", f)
    /\ UNCHANGED <<state, handle_max, remote_channel, next_outgoing_id,
                   incoming_window, outgoing_window, target_incoming_window,
                   link_vars, hung, waiting>>
    /\ ResetRun

\* _outgoing_flow(frame) called by the link with local handle h.
OutgoingFlow(h) ==
    /\ ~hung
    /\ h \in DOMAIN _output_handles
    /\ out' = <<FlowFrame(h, next_incoming_id, incoming_window,
                        next_outgoing_id, outgoing_window)>>
    /\ calls' = <<>>
    /\ delivery' = NoDelivery
    /\ last_op' = Op("outgoing_flow", state, "ok", h)
    /\ UNCHANGED <<session_vars, link_vars, hung, waiting>>
    /\ ResetRun

\* A link's method `op` handing its frame to the Connection through the
\* session, which passes it on as it is.
OutgoingLinkFrame(op, frame) ==
    /\ ~hung
    /\ out' = <<frame>>
    /\ calls' = <<>>
    /\ delivery' = NoDelivery
    /\ last_op' = Op(op, state, "ok", frame)
    /\ UNCHANGED <<session_vars, link_vars, hung, waiting>>
    /\ ResetRun

\* _outgoing_attach(frame), the Attach of the link with local handle h.
OutgoingAttach(h) == OutgoingLinkFrame("outgoing_attach", [type |-> "attach", handle |-> h])

\* _outgoing_detach(frame), the Detach of the link with local handle h.
OutgoingDetach(h) == OutgoingLinkFrame("outgoing_detach", [type |-> "detach", handle |-> h])

\* _outgoing_disposition(frame), a Disposition of a receiver link.
OutgoingDisposition == OutgoingLinkFrame("outgoing_disposition", [type |-> "disposition"])

(***************************************************************************)
(* Transfers.                                                              *)
(***************************************************************************)
\* A Python slice index brought into 0 .. n: a negative index counts from the
\* end, and an index beyond either end is clipped.
SliceIndex(i, n) == IF i < 0 THEN (IF i + n < 0 THEN 0 ELSE i + n) ELSE Min(i, n)

\* Python's payload[a:b] (0-based, b exclusive).
Slice(payload, a, b) ==
    LET s == SliceIndex(a, Len(payload))
        e == SliceIndex(b, Len(payload))
    IN  IF e <= s THEN <<>> ELSE [i \in 1 .. (e - s) |-> payload[s + i]]

\* One Transfer frame of a delivery.
TransferFrame(handle, delivery_id, more, payload) ==
    [type |-> "transfer", handle |-> handle, delivery_id |-> delivery_id,
     more |-> more, payload |-> payload]

\* A capacity that forgets the frame header.
AvailableFrameSizeNoHeader(overhead) == RemoteMaxFrameSize - overhead

\* available_frame_size: remote max frame size - transfer overhead - header.
AvailableFrameSize(overhead) == RemoteMaxFrameSize - overhead - FrameHeaderSize

\* A loop that also continues when the remaining bytes exactly fill a frame.
MoreFramesInclusive(remaining, available) == remaining >= available

\* Whether the fragmentation loop continues with `remaining` bytes left.
MoreFrames(remaining, available) == remaining > available

RECURSIVE FragmentIdPerFrame(_, _, _, _, _, _)
\* A loop that advances the delivery id with every frame it emits.
FragmentIdPerFrame(payload, start_idx, remaining, available, handle, delivery_id) ==
    IF MoreFrames(remaining, available)
    THEN <<TransferFrame(handle, delivery_id, TRUE,
                         Slice(payload, start_idx, start_idx + available))>>
         \o FragmentIdPerFrame(payload, start_idx + available, remaining - available,
                               available, handle, delivery_id + 1)
    ELSE <<TransferFrame(handle, delivery_id, FALSE,
                         Slice(payload, start_idx, Len(payload)))>>

RECURSIVE Fragment(_, _, _, _, _, _)
\* The frames the fragmentation loop of _outgoing_transfer emits from
\* start_idx on, with `remaining` bytes left (available > 0).
Fragment(payload, start_idx, remaining, available, handle, delivery_id) ==
    IF MoreFrames(remaining, available)
    THEN <<TransferFrame(handle, delivery_id, TRUE,
                         Slice(payload, start_idx, start_idx + available))>>
         \o Fragment(payload, start_idx + available, remaining - available,
                     available, handle, delivery_id)
    ELSE <<TransferFrame(handle, delivery_id, FALSE,
                         Slice(payload, start_idx, Len(payload)))>>

\* Whether the fragmentation loop never ends: it subtracts a capacity that
\* is not positive from a remaining count that exceeds it.
LoopDiverges(size, available) == available <= 0 /\ size > available

\* The first n frames of a fragmentation loop that never ends: turn k sends
\* payload[start_idx : start_idx + available] with start_idx = (k - 1) * available,
\* always with more=True.
LoopFrames(payload, available, handle, delivery_id, n) ==
    [k \in 1 .. n |->
        TransferFrame(handle, delivery_id, TRUE,
                      Slice(payload, (k - 1) * available, k * available))]

\* The deliveries a sender link may hand to the session.
Deliveries(sizes) ==
    {[payload |-> Payload(n), delivery_id |-> None, transfer_state |-> "NONE",
      handle |-> h] :
        n \in sizes,
        h \in {x \in DOMAIN _output_handles : link_objs[_output_handles[x]].role = "Sender"}}

\* A session that counted one unit per frame instead of one per transfer.
TransferUnitsPerFrame(frames) == Len(frames)

\* What one accepted transfer of the given frames adds to next_outgoing_id and
\* takes from remote_incoming_window and outgoing_window.
TransferUnits(frames) == 1

\* A session that still sends when the peer's window is exactly used up.
TransferAcceptedAtZero(riw) == riw >= 0

\* Whether _outgoing_transfer takes the sending branch.
TransferAccepted(riw) == riw > 0

\* A session that has taken the payload out of the delivery before it finds
\* the peer's window used up.
BusyDeliveryErased(d) == [d EXCEPT !.payload = <<>>, !.transfer_state = "BUSY"]

\* The delivery as the BUSY branch of _outgoing_transfer leaves it.
BusyDelivery(d) == [d EXCEPT !.transfer_state = "BUSY"]

\* _outgoing_transfer(delivery, ...), the encoded empty-payload frame being
\* `overhead` bytes long.
OutgoingTransfer(d, overhead) ==
    LET available == AvailableFrameSize(overhead)
    IN  /\ Idle
        /\ next_outgoing_id < MaxTransfers
        /\ calls' = <<>>
        /\ IF ~TransferAccepted(remote_incoming_window)
           THEN /\ delivery' = BusyDelivery(d)
                /\ out' = <<>>
                /\ last_op' = Op("outgoing_transfer", state, "BUSY", <<d, overhead>>)
                /\ UNCHANGED <<next_outgoing_id, remote_incoming_window,
                               outgoing_window, hung, waiting, run>>
           ELSE IF LoopDiverges(Len(d.payload), available)
           THEN \* the loop hands over frames for ever and the call never returns;
                \* out holds the first of them
                /\ delivery' = [d EXCEPT !.payload = <<>>, !.delivery_id = next_outgoing_id,
                                         !.transfer_state =
                                             IF state # "MAPPED" THEN "ERROR" ELSE @]
                /\ out' = LoopFrames(d.payload, available, d.handle, next_outgoing_id,
                                     MaxLoopFrames)
                /\ hung' = TRUE
                /\ waiting' = waiting
                /\ last_op' = Op("outgoing_transfer", state, "diverges", <<d, overhead>>)
                /\ UNCHANGED <<next_outgoing_id, remote_incoming_window, outgoing_window, run>>
           ELSE /\ out' = Fragment(d.payload, 0, Len(d.payload), available,
                                   d.handle, next_outgoing_id)
                /\ next_outgoing_id' = next_outgoing_id + TransferUnits(out')
                /\ remote_incoming_window' = remote_incoming_window - TransferUnits(out')
                /\ outgoing_window' = outgoing_window - TransferUnits(out')
                /\ run' = [run EXCEPT !.n = @ + 1]
                /\ delivery' = [d EXCEPT !.payload = <<>>, !.delivery_id = next_outgoing_id,
                                         !.transfer_state = "OKAY"]
                /\ last_op' = Op("outgoing_transfer", state, "OKAY", <<d, overhead>>)
                /\ hung' = hung
                /\ waiting' = waiting
        /\ UNCHANGED <<state, handle_max, remote_channel, next_incoming_id,
                       incoming_window, target_incoming_window,
                       remote_outgoing_window, link_vars>>

\* The sender link calls _outgoing_transfer again with the delivery object its
\* last call left BUSY.
RetryTransfer(overhead) ==
    /\ delivery.transfer_state = "BUSY"
    /\ OutgoingTransfer(delivery, overhead)

\* A session that renews its window one transfer early.
WindowExhaustedEarly(iw) == iw <= 1

\* Whether the incoming window, now iw, is used up and must be renewed.
WindowExhausted(iw) == iw = 0

\* A session that counts an inbound transfer only with its last frame.
InboundUnitsPerDelivery(more) == IF more THEN 0 ELSE 1

\* What one inbound Transfer frame adds to next_incoming_id and takes from
\* remote_outgoing_window and incoming_window, whatever its more flag.
InboundUnits(more) == 1

\* _incoming_transfer(frame): frame[0] = handle, frame[5] = more.
IncomingTransfer(h, more) ==
    /\ ~hung
    /\ incoming_window > -MaxNeg
    /\ remote_outgoing_window > -MaxNeg
    /\ delivery' = NoDelivery
    /\ IF next_incoming_id = None
       THEN \* None += 1 raises TypeError before anything is changed
            /\ last_op' = Op("incoming_transfer", state, "TypeError", <<h, more>>)
            /\ out' = <<>>
            /\ calls' = <<>>
            /\ UNCHANGED <<state, next_incoming_id, remote_outgoing_window,
                           incoming_window, link_objs>>
       ELSE /\ next_incoming_id' = next_incoming_id + InboundUnits(more)
            /\ remote_outgoing_window' = remote_outgoing_window - InboundUnits(more)
            /\ last_op' = Op("incoming_transfer", state, "ok", <<h, more>>)
            /\ IF h \in DOMAIN _input_handles
               THEN /\ calls' = <<Call(_input_handles[h], "_incoming_transfer")>>
                    /\ state' = state
                    /\ link_objs' = link_objs
                    /\ IF WindowExhausted(incoming_window - InboundUnits(more))
                       THEN /\ incoming_window' = target_incoming_window
                            /\ out' = <<FlowFrame(None, next_incoming_id + InboundUnits(more),
                                                  target_incoming_window,
                                                  next_outgoing_id, outgoing_window)>>
                       ELSE /\ incoming_window' = incoming_window - InboundUnits(more)
                            /\ out' = <<>>
               ELSE \* unattached handle: _set_state(DISCARDING), then end(error)
                    /\ incoming_window' = incoming_window - InboundUnits(more)
                    /\ EndBody("DISCARDING", UnattachedHandle, "none", SetStateCalls)
    /\ UNCHANGED <<handle_max, remote_channel, next_outgoing_id, outgoing_window,
                   target_incoming_window, remote_incoming_window,
                   links_dict, _output_handles_dict, _input_handles_dict, hung, waiting>>
    /\ ResetRun

(***************************************************************************)
(* Specifications.                                                         *)
(***************************************************************************)
\* A peer handle no link is ever attached under.
UnboundHandle == 99

\* Spec: the session state machine and the routing of inbound frames.
Init == InitWith({1, 2}, {1}, {DefaultHandleMax})

Next ==
    \/ Begin
    \/ \E f \in BeginFrames({None, channel}, {0, 1}, {1}, {1}, {DefaultHandleMax}) :
           IncomingBegin(f)
    \/ \E e \in Errors, fault \in Faults : End(e, fault)
    \/ IncomingEnd
    \/ \E cs \in ConnectionStates : OnConnectionStateChange(cs)
    \/ CreateSenderLink("a", MaxLinks)
    \/ \E n \in Names : IncomingAttach(n, 0, "Receiver", FALSE, MaxLinks)
    \/ \E rh \in {0, UnboundHandle} : IncomingDetach(rh, FALSE)
    \/ \E h \in {0, UnboundHandle}, more \in BOOLEAN : IncomingTransfer(h, more)

Spec == Init /\ [][Next]_vars

\* SpecTransfer: outgoing transfers and the flow-control windows.
InitTransfer == InitWith({1}, {1, 2}, {DefaultHandleMax})

NextTransfer ==
    \/ Begin
    \/ \E f \in BeginFrames({channel}, {0}, 0 .. MaxWin, {0}, {DefaultHandleMax}) :
           IncomingBegin(f)
    \/ \E e \in Errors : End(e, "none")
    \/ CreateSenderLink("a", 1)
    \/ \E f \in FlowFrames({None} \cup (0 .. MaxWin), 0 .. MaxWin, {0}, {0}, {None}) :
           IncomingFlow(f)
    \/ \E d \in Deliveries(PayloadSizes), o \in Overheads : OutgoingTransfer(d, o)

SpecTransfer == InitTransfer /\ [][NextTransfer]_vars

\* SpecHandles: the handle tables.  Links are created without a name and the
\* peer attaches to and detaches from the links that exist.
InitHandles == InitWith({1}, {1}, {DefaultHandleMax, 3})

NextHandles ==
    \/ CreateSenderLink(FreshName, MaxHandleLinks)
    \/ CreateReceiverLink(FreshName, MaxHandleLinks)
    \/ \E n \in LinkNames, rh \in RemoteHandles :
           IncomingAttach(n, rh, "Sender", FALSE, MaxHandleLinks)
    \/ \E rh \in RemoteHandles : IncomingDetach(rh, TRUE)

SpecHandles == InitHandles /\ [][NextHandles]_vars

\* SpecReceive: inbound frames on links the peer attaches, and the Flow
\* frames the session sends for them.
InitReceive == InitWith({1, 2}, {1}, {DefaultHandleMax})

NextReceive ==
    \/ Begin
    \/ \E f \in BeginFrames({None, channel}, {0, 1}, {1}, {1}, {DefaultHandleMax}) :
           IncomingBegin(f)
    \/ \E e \in Errors : End(e, "none")
    \/ IncomingEnd
    \/ \E cs \in ConnectionStates \cup OtherConnectionStates : OnConnectionStateChange(cs)
    \/ \E n \in Names : IncomingAttach(n, 0, "Receiver", FALSE, MaxPeerLinks)
    \/ \E rh \in {0, UnboundHandle} : IncomingDetach(rh, FALSE)
    \/ \E h \in {0, UnboundHandle}, more \in BOOLEAN : IncomingTransfer(h, more)
    \/ IncomingDisposition
    \/ OutgoingFlow(FirstHandle)
    \/ OutgoingAttach(FirstHandle)
    \/ OutgoingDetach(FirstHandle)
    \/ OutgoingDisposition

SpecReceive == InitReceive /\ [][NextReceive]_vars

\* SpecWait: begin() and end() with a wait, the inbound frames and Connection
\* events their wait loop lets in, and the ways the loop is left.
InitWait == InitWith({1}, {1}, {DefaultHandleMax})

NextWait ==
    \/ \E w \in Waits : BeginCall(w)
    \/ \E e \in Errors, fault \in Faults, w \in Waits : EndCall(e, fault, w)
    \/ WaitReturn
    \/ WaitTimeout
    \/ WaitPollRaises
    \/ \E f \in BeginFrames({channel}, {0}, {1}, {1}, {DefaultHandleMax}) : IncomingBegin(f)
    \/ IncomingEnd
    \/ \E cs \in ConnectionStates : OnConnectionStateChange(cs)
    \/ IncomingAttach("a", 0, "Receiver", FALSE, MaxPeerLinks)

SpecWait == InitWait /\ [][NextWait]_vars

\* SpecLinks: links created locally and by the peer's Attach frames, closed
\* by the peer's Detach frames, and the routing of Flow frames to them; the
\* session may have no handle to give (handle_max 0) or a single one (2), and
\* a link may refuse the peer's Attach (its _incoming_attach raises ValueError).
InitLinks == InitWith({1}, {1}, {DefaultHandleMax, 2, 0})

NextLinks ==
    \/ CreateSenderLink("a", MaxFlowLinks)
    \/ \E n \in {"a", "p"}, rh \in {0, 1}, role \in Roles, reject \in BOOLEAN :
            IncomingAttach(n, rh, role, reject, MaxFlowLinks)
    \/ \E rh \in {0, 1} : IncomingDetach(rh, TRUE)
    \/ \E f \in FlowFrames({None}, {0, 1}, {0}, {0}, {None, 0}) : IncomingFlow(f)
    \/ IncomingDisposition

SpecLinks == InitLinks /\ [][NextLinks]_vars

\* SpecPipelined: links created before and after the Begin exchange, the
\* peer's Begin carrying a handle-max of its own.
InitPipelined == InitWith({1}, {1}, {DefaultHandleMax})

NextPipelined ==
    \/ Begin
    \/ CreateSenderLink(FreshName, MaxLinks)
    \/ CreateReceiverLink(FreshName, MaxLinks)
    \/ \E f \in BeginFrames({channel}, {0}, {1}, {1}, {DefaultHandleMax, 1, 2, 3}) :
           IncomingBegin(f)
    \/ \E e \in Errors : End(e, "none")
    \/ IncomingEnd

SpecPipelined == InitPipelined /\ [][NextPipelined]_vars

\* SpecWide: a peer whose Begin announces a next-outgoing-id at the top of the
\* unsigned 32-bit range, and the Transfer frames it then sends.
InitWide == InitWith({1, 2}, {1}, {DefaultHandleMax})

NextWide ==
    \/ Begin
    \/ \E f \in BeginFrames({None, channel}, {0, UInt32Top - 1, UInt32Top}, {1}, {1},
                             {DefaultHandleMax}) : IncomingBegin(f)
    \/ IncomingAttach("a", 0, "Receiver", FALSE, MaxPeerLinks)
    \/ \E more \in BOOLEAN : IncomingTransfer(0, more)
    \/ \E e \in Errors : End(e, "none")
    \/ IncomingEnd

SpecWide == InitWide /\ [][NextWide]_vars

\* SpecRetry: deliveries refused with BUSY, the Flow frames that reopen the
\* peer's window, and the sender link's retries.
InitRetry == InitWith({1}, {1}, {DefaultHandleMax})

NextRetry ==
    \/ Begin
    \/ \E f \in BeginFrames({channel}, {0}, {0, 1}, {0}, {DefaultHandleMax}) :
           IncomingBegin(f)
    \/ CreateSenderLink("a", 1)
    \/ \E f \in FlowFrames({None}, 0 .. MaxWin, {0}, {0}, {None}) : IncomingFlow(f)
    \/ \E d \in Deliveries(PayloadSizes), o \in Overheads : OutgoingTransfer(d, o)
    \/ \E o \in Overheads : RetryTransfer(o)

SpecRetry == InitRetry /\ [][NextRetry]_vars

(***************************************************************************)
(* Properties.                                                             *)
(***************************************************************************)
Max(a, b) == IF a > b THEN a ELSE b

CeilDiv(s, a) == (s + a - 1) \div a

\* The last operation was an _outgoing_transfer that sent its delivery.
AcceptedTransfer == last_op.op = "outgoing_transfer" /\ last_op.res = "OKAY"

\* The payload of the delivery given to the last _outgoing_transfer.
SentPayload == last_op.arg[1].payload

\* The per-frame capacity A of the last _outgoing_transfer, from its inputs.
Capacity == RemoteMaxFrameSize - last_op.arg[2] - FrameHeaderSize

RECURSIVE ConcatPayloads(_)
ConcatPayloads(frames) ==
    IF frames = <<>> THEN <<>>
    ELSE Head(frames).payload \o ConcatPayloads(Tail(frames))

\* C1: on a MAPPED session, after N successive accepted _outgoing_transfer
\* calls (fragmented or not) begun with remote_incoming_window >= N,
\* next_outgoing_id is N higher and remote_incoming_window and outgoing_window
\* are each N lower than before the first of them.
C1_TransferCounters ==
    (state = "MAPPED" /\ run.remote_incoming_window >= run.n) =>
        /\ next_outgoing_id = run.next_outgoing_id + run.n
        /\ remote_incoming_window = run.remote_incoming_window - run.n
        /\ outgoing_window = run.outgoing_window - run.n

\* Two accepted transfers in a row, the second of them fragmented.
C1_Witness ==
    /\ state = "MAPPED"
    /\ run.n >= 2
    /\ AcceptedTransfer
    /\ Len(out) > 1
    /\ next_outgoing_id = run.next_outgoing_id + run.n

\* The frames of one accepted transfer: max(1, ceil(S/A)) Transfer frames,
\* all but the last with more=True, the last with more=False.
FrameCountOk ==
    /\ Len(out) = Max(1, CeilDiv(Len(SentPayload), Capacity))
    /\ \A i \in 1 .. Len(out) :
           out[i].type = "transfer" /\ out[i].more = (i < Len(out))

\* C2 as stated: an accepted transfer of S bytes with capacity A > 0 hands the
\* Connection max(1, ceil(S/A)) frames, more=True on all but the last, and
\* S = 3*A + 10 yields exactly 4 frames.
C2_Original ==
    (AcceptedTransfer /\ Capacity > 0) =>
        /\ FrameCountOk
        /\ Len(SentPayload) = 3 * Capacity + 10 => Len(out) = 4

\* C2, amended: an accepted transfer of S bytes with capacity A > 0 hands the
\* Connection max(1, ceil(S/A)) frames, more=True on all but the last, and
\* S = 3*A + 10 yields exactly 4 frames when A >= 10.
C2_FrameCount ==
    (AcceptedTransfer /\ Capacity > 0) =>
        /\ FrameCountOk
        /\ (Len(SentPayload) = 3 * Capacity + 10 /\ Capacity >= 10) =>
               /\ Len(out) = 4
               /\ \A i \in 1 .. 3 : out[i].more
               /\ ~out[4].more

\* A 40-byte payload sent with capacity 10: four frames.
C2_Witness ==
    /\ AcceptedTransfer
    /\ Capacity = 10
    /\ Len(SentPayload) = 3 * Capacity + 10
    /\ Len(out) = 4

\* C3: for every payload and capacity A > 0, the payloads of the frames of
\* one accepted transfer, concatenated in emission order, are the original
\* payload, and no frame carries more than
\* A = remote_max_frame_size - transfer_overhead - 8 bytes.
C3_RoundTrip ==
    (AcceptedTransfer /\ Capacity > 0) =>
        /\ ConcatPayloads(out) = SentPayload
        /\ \A i \in 1 .. Len(out) : Len(out[i].payload) <= Capacity

\* A 13-byte payload sent in five frames of at most 3 bytes.
C3_Witness ==
    /\ AcceptedTransfer
    /\ Capacity = 3
    /\ Len(SentPayload) = 13
    /\ Len(out) = 5
    /\ ConcatPayloads(out) = SentPayload

\* The last operation created a link and returned it.
LinkCreated(op) ==
    op.op \in {"create_sender_link", "create_receiver_link"} /\ op.res = "ok"

\* C4: handle numbers are reused after detach: with three links attached and
\* the second of them fully detached by the peer, the next link created is
\* given the handle number the second link held.
C4_HandleReuse ==
    [][(/\ DOMAIN link_objs = {1, 2, 3}
        /\ \A id \in {1, 2, 3} : id \in Range(_input_handles)
        /\ link_objs[2].detached /\ link_objs[2].is_closed
        /\ ~link_objs[1].detached /\ ~link_objs[3].detached
        /\ LinkCreated(last_op'))
       => last_op'.arg = link_objs[2].handle]_vars

\* C5: a created link is given the smallest integer of [0, handle_max) that
\* is not a key of _output_handles; on a fresh session the first link
\* created gets handle 0.
C5_SmallestFree ==
    [][LinkCreated(last_op') =>
          /\ last_op'.arg \in 0 .. (handle_max - 1)
          /\ last_op'.arg \notin DOMAIN _output_handles
          /\ \A i \in 0 .. (last_op'.arg - 1) : i \in DOMAIN _output_handles]_vars

\* C6: whether the session had sent its Begin (BEGIN_SENT) or not (UNMAPPED),
\* after the peer's Begin is processed it is MAPPED, remote_channel is
\* assigned, and next_incoming_id is the peer's next-outgoing-id.
C6_BeginSymmetry ==
    (last_op.op = "incoming_begin" /\ last_op.pre \in {"BEGIN_SENT", "UNMAPPED"}) =>
        /\ state = "MAPPED"
        /\ remote_channel # None
        /\ next_incoming_id = last_op.arg.next_outgoing_id

\* C7: end() called twice in a row on a MAPPED session hands the Connection
\* exactly one End frame in total.
C7_EndIdempotent ==
    [][(/\ last_op.op = "end" /\ last_op.pre = "MAPPED" /\ last_op.res = "ok"
        /\ last_op'.op = "end")
       => Count(out, "end") + Count(out', "end") = 1]_vars

\* C8: an inbound Transfer for an attached handle that brings incoming_window
\* to zero resets it to target_incoming_window and emits exactly one Flow,
\* advertising the reset incoming_window and the current next_incoming_id,
\* next_outgoing_id and outgoing_window; one that leaves incoming_window
\* above zero emits no Flow.
C8_WindowReset ==
    [][(/\ last_op'.op = "incoming_transfer" /\ last_op'.res = "ok"
        /\ last_op'.arg[1] \in DOMAIN _input_handles)
       => /\ incoming_window - 1 = 0 =>
                /\ incoming_window' = target_incoming_window
                /\ Len(out') = 1
                /\ out'[1].type = "flow"
                /\ out'[1].incoming_window = target_incoming_window
                /\ out'[1].next_incoming_id = next_incoming_id + 1
                /\ out'[1].next_incoming_id = next_incoming_id'
                /\ out'[1].next_outgoing_id = next_outgoing_id'
                /\ out'[1].outgoing_window = outgoing_window'
          /\ incoming_window - 1 > 0 =>
                /\ incoming_window' = incoming_window - 1
                /\ Count(out', "flow") = 0]_vars

\* An inbound Transfer on an attached handle used up the window: it is back
\* at its target and one Flow was sent.
C8_Witness ==
    /\ last_op.op = "incoming_transfer" /\ last_op.res = "ok"
    /\ last_op.arg[1] \in DOMAIN _input_handles
    /\ target_incoming_window = 2
    /\ incoming_window = target_incoming_window
    /\ Count(out, "flow") = 1

\* C9: an inbound Transfer whose handle is not bound in _input_handles makes
\* the state DISCARDING and hands the Connection exactly one End frame, which
\* carries the session-unattached-handle error.
C9_UnattachedTransfer ==
    (/\ last_op.op = "incoming_transfer" /\ last_op.res = "ok"
     /\ last_op.arg[1] \notin DOMAIN _input_handles)
    => /\ state = "DISCARDING"
       /\ Count(out, "end") = 1
       /\ \A i \in 1 .. Len(out) : out[i].type = "end" => out[i].error = UnattachedHandle

\* C10: begin() on an UNMAPPED session hands the Connection exactly one Begin
\* and leaves the state BEGIN_SENT; an inbound Begin then makes the state
\* MAPPED without a second Begin being sent.
C10_LocalOpen ==
    /\ (last_op.op = "begin" /\ last_op.pre = "UNMAPPED") =>
           state = "BEGIN_SENT" /\ Len(out) = 1 /\ Count(out, "begin") = 1
    /\ (last_op.op = "incoming_begin" /\ last_op.pre = "BEGIN_SENT") =>
           state = "MAPPED" /\ Count(out, "begin") = 0

\* The peer's Begin answered a Begin the session had sent.
C10_Witness ==
    /\ last_op.op = "incoming_begin"
    /\ last_op.pre = "BEGIN_SENT"
    /\ state = "MAPPED"
    /\ out = <<>>

\* C11: an inbound Begin received while the session is UNMAPPED makes it reply
\* with exactly one Begin, built while the state is BEGIN_RCVD (it echoes the
\* session's remote_channel and carries no desired capabilities), and leaves
\* the session MAPPED.
C11_PeerOpen ==
    (last_op.op = "incoming_begin" /\ last_op.pre = "UNMAPPED") =>
        /\ state = "MAPPED"
        /\ Len(out) = 1
        /\ out[1].type = "begin"
        /\ out[1].desired_capabilities = "None"
        /\ out[1].remote_channel = remote_channel

\* The peer's Begin reached a session that had not sent one.
C11_Witness ==
    /\ last_op.op = "incoming_begin"
    /\ last_op.pre = "UNMAPPED"
    /\ state = "MAPPED"
    /\ Count(out, "begin") = 1

\* The detach() calls among the Link calls of the last operation.
DetachesMade == SelectSeq(calls, LAMBDA c : c.call = "detach")

\* Every link of `links` had detach() called on it exactly once by the last
\* operation, and is detached.
AllLinksDetached ==
    /\ \A id \in Range(links) :
           /\ Len(SelectSeq(calls, LAMBDA c : c = Call(id, "detach"))) = 1
           /\ link_objs[id].detached
    /\ Len(DetachesMade) = Cardinality(Range(links))

\* C12: end() on a MAPPED session (no collaborator raising) hands the
\* Connection one End frame, carrying the error when one is supplied, calls
\* detach() on every link of links, and leaves the state END_SENT without an
\* error and DISCARDING with one.
C12_EndMapped ==
    (last_op.op = "end" /\ last_op.pre = "MAPPED" /\ last_op.res = "ok") =>
        /\ out = <<EndFrame(last_op.arg)>>
        /\ AllLinksDetached
        /\ last_op.arg = "none" => state = "END_SENT"
        /\ last_op.arg # "none" => state = "DISCARDING"

\* end(error) was called on a MAPPED session that holds a link.
C12_Witness ==
    /\ last_op.op = "end" /\ last_op.pre = "MAPPED" /\ last_op.res = "ok"
    /\ last_op.arg # "none"
    /\ links # EmptyMap
    /\ state = "DISCARDING"
    /\ Count(out, "end") = 1

\* C13: after an inbound End the session is UNMAPPED in every case; from a
\* state in which no End had been sent (MAPPED, BEGIN_SENT) every link is
\* detached and exactly one End is sent in reply; from END_SENT or DISCARDING
\* no End is sent and no link is detached.
C13_IncomingEnd ==
    last_op.op = "incoming_end" =>
        /\ state = "UNMAPPED"
        /\ last_op.pre \in {"MAPPED", "BEGIN_SENT"} =>
               /\ Len(out) = 1 /\ Count(out, "end") = 1
               /\ AllLinksDetached
        /\ last_op.pre \in {"END_SENT", "DISCARDING"} =>
               /\ out = <<>>
               /\ DetachesMade = <<>>

\* The peer's End reached a MAPPED session that holds a link.
C13_Witness ==
    /\ last_op.op = "incoming_end" /\ last_op.pre = "MAPPED"
    /\ links # EmptyMap
    /\ state = "UNMAPPED"
    /\ Count(out, "end") = 1

\* C14: when the Connection reports CLOSE_RCVD or END, a session in a state
\* other than UNMAPPED or DISCARDING becomes DISCARDING and one in UNMAPPED or
\* DISCARDING keeps its state; any other Connection state leaves the session
\* state as it was.
C14_ConnectionClosed ==
    last_op.op = "connection_state_change" =>
        IF last_op.arg \in {"CLOSE_RCVD", "END"}
           /\ last_op.pre \notin {"UNMAPPED", "DISCARDING"}
        THEN state = "DISCARDING"
        ELSE state = last_op.pre

\* The Connection reported CLOSE_RCVD to a MAPPED session.
C14_Witness ==
    /\ last_op.op = "connection_state_change"
    /\ last_op.arg = "CLOSE_RCVD"
    /\ last_op.pre = "MAPPED"
    /\ state = "DISCARDING"

\* C15: state transitions are monotonic: no step takes MAPPED back to
\* BEGIN_SENT or BEGIN_RCVD, no step takes END_SENT, END_RCVD or DISCARDING
\* to BEGIN_SENT, BEGIN_RCVD or MAPPED, and no step replaces DISCARDING by
\* END_SENT.
C15_Monotonic ==
    [][/\ state = "MAPPED" => state' \notin {"BEGIN_SENT", "BEGIN_RCVD"}
       /\ state \in {"END_SENT", "END_RCVD", "DISCARDING"} =>
              state' \notin {"BEGIN_SENT", "BEGIN_RCVD", "MAPPED"}
       /\ state = "DISCARDING" => state' # "END_SENT"]_vars

\* C16: _outgoing_transfer called while the state is not MAPPED sets the
\* delivery's transfer_state to ERROR, hands no frame to the Connection and
\* leaves next_outgoing_id, remote_incoming_window and outgoing_window as
\* they were.
C16_NoTransferUnlessMapped ==
    [][(last_op'.op = "outgoing_transfer" /\ state # "MAPPED") =>
           /\ delivery'.transfer_state = "ERROR"
           /\ out' = <<>>
           /\ UNCHANGED <<next_outgoing_id, remote_incoming_window, outgoing_window>>]_vars

\* C17: _outgoing_transfer on a MAPPED session whose remote_incoming_window
\* is zero or less sets the delivery's transfer_state to BUSY, hands no frame
\* to the Connection and leaves next_outgoing_id, remote_incoming_window,
\* outgoing_window and the delivery's payload and delivery_id unchanged.
C17_BackPressure ==
    [][(/\ last_op'.op = "outgoing_transfer"
        /\ state = "MAPPED"
        /\ remote_incoming_window <= 0) =>
           /\ delivery'.transfer_state = "BUSY"
           /\ out' = <<>>
           /\ UNCHANGED <<next_outgoing_id, remote_incoming_window, outgoing_window>>
           /\ delivery'.payload = last_op'.arg[1].payload
           /\ delivery'.delivery_id = last_op'.arg[1].delivery_id]_vars

\* A delivery with a payload was refused by a MAPPED session.
C17_Witness ==
    /\ last_op.op = "outgoing_transfer" /\ last_op.pre = "MAPPED"
    /\ remote_incoming_window <= 0
    /\ delivery.transfer_state = "BUSY"
    /\ Len(delivery.payload) > 0
    /\ out = <<>>

\* C18: remote_incoming_window is non-negative in every reachable state.
C18_RemoteWindowNonNegative == remote_incoming_window >= 0

\* C19: create_sender_link / create_receiver_link either succeed with a
\* handle that was free, or fail with the ValueError of handle exhaustion and
\* leave links and _output_handles unchanged.
C19_HandlesExhausted ==
    [][last_op'.op \in {"create_sender_link", "create_receiver_link"} =>
           \/ /\ last_op'.res = "ok"
              /\ last_op'.arg \notin DOMAIN _output_handles
              /\ last_op'.arg \in DOMAIN _output_handles'
           \/ /\ last_op'.res = "ValueError"
              /\ UNCHANGED <<links, _output_handles>>]_vars

\* C20: when the wait loop of begin(wait=t) or end(wait=t) times out, the call
\* returns without raising, and the timeout changes no session state, no
\* link table and sends (or retracts) no frame.
C20_WaitTimeout ==
    [][last_op'.op = "wait_timeout" =>
           /\ last_op'.res = "ok"
           /\ waiting' = NotWaiting
           /\ UNCHANGED <<session_vars, link_vars>>
           /\ out' = <<>>]_vars

\* end(wait=t) timed out before the peer's End arrived: the call has
\* returned and the session is still END_SENT.
C20_Witness ==
    /\ last_op.op = "wait_timeout" /\ last_op.arg.op = "end"
    /\ last_op.res = "ok"
    /\ waiting = NotWaiting
    /\ state = "END_SENT"

\* C21: begin(wait=True) returns only when the session is MAPPED, and once
\* the peer's Begin has been delivered into its wait loop (the session is
\* MAPPED) the call can return.
C21_BlockingBegin ==
    /\ (/\ last_op.op = "wait_return"
        /\ last_op.arg.op = "begin" /\ last_op.arg.wait = "forever") =>
           state = "MAPPED"
    /\ (waiting.op = "begin" /\ waiting.wait = "forever" /\ state = "MAPPED") =>
           ENABLED WaitReturn

\* C22: an inbound Detach whose handle is not bound in _input_handles makes
\* the session DISCARDING and sends an End frame carrying the
\* session-unattached-handle error; an inbound Detach for a bound handle is
\* delivered to exactly that link and leaves the session state unchanged.
C22_UnattachedDetach ==
    last_op.op = "incoming_detach" =>
        IF last_op.arg[1] \in DOMAIN _input_handles
        THEN /\ calls = <<Call(_input_handles[last_op.arg[1]], "_incoming_detach")>>
             /\ state = last_op.pre
        ELSE /\ state = "DISCARDING"
             /\ Count(out, "end") = 1
             /\ \A i \in 1 .. Len(out) :
                    out[i].type = "end" => out[i].error = UnattachedHandle

\* C23: every frame of one accepted outgoing transfer carries the value
\* next_outgoing_id had when the transfer began, only the last frame has
\* more = FALSE, the three counters change exactly once and by one over the
\* whole transfer, and an accepted transfer that directly follows another
\* carries the next delivery id.
C23_DeliveryIds ==
    [][(last_op'.op = "outgoing_transfer" /\ last_op'.res = "OKAY") =>
          /\ Len(out') >= 1
          /\ \A i \in 1 .. Len(out') :
                 /\ out'[i].type = "transfer"
                 /\ out'[i].delivery_id = next_outgoing_id
                 /\ out'[i].more = (i < Len(out'))
          /\ delivery'.delivery_id = next_outgoing_id
          /\ next_outgoing_id' = next_outgoing_id + 1
          /\ remote_incoming_window' = remote_incoming_window - 1
          /\ outgoing_window' = outgoing_window - 1
          /\ AcceptedTransfer =>
                 out'[1].delivery_id = out[Len(out)].delivery_id + 1]_vars

\* A fragmented accepted transfer that directly follows an accepted transfer.
C23_Witness ==
    /\ AcceptedTransfer
    /\ Len(out) >= 2
    /\ run.n >= 2

\* C24: an inbound Flow sets next_incoming_id to the peer's next-outgoing-id,
\* remote_outgoing_window to the peer's outgoing-window and
\* remote_incoming_window to peer next-incoming-id + peer incoming-window -
\* next_outgoing_id, the local next_outgoing_id standing in for the peer's
\* next-incoming-id only when the peer omitted it (0 is used as given).
C24_FlowWindow ==
    [][last_op'.op = "incoming_flow" =>
          LET f == last_op'.arg
              peer_next_incoming_id == IF f.next_incoming_id = None
                                       THEN next_outgoing_id
                                       ELSE f.next_incoming_id
          IN  /\ next_incoming_id' = f.next_outgoing_id
              /\ remote_outgoing_window' = f.outgoing_window
              /\ remote_incoming_window' =
                     peer_next_incoming_id + f.incoming_window - next_outgoing_id]_vars

\* The links the calls of the last operation reached.
CalledLinks == {calls[i].link : i \in 1 .. Len(calls)}

\* C25: an inbound Flow with a (bound) handle reaches exactly the link bound
\* to that input handle; an inbound Flow without a handle reaches, once each,
\* every link of the session that is not closed when the recomputed
\* remote_incoming_window is positive, and no link when it is not.
C25_FlowRouting ==
    (last_op.op = "incoming_flow" /\ last_op.res = "ok") =>
        /\ \A i \in 1 .. Len(calls) : calls[i].call = "_incoming_flow"
        /\ IF last_op.arg.handle # None
           THEN calls = <<Call(_input_handles[last_op.arg.handle], "_incoming_flow")>>
           ELSE /\ CalledLinks = IF remote_incoming_window > 0
                                 THEN {l \in DOMAIN link_objs : ~link_objs[l].is_closed}
                                 ELSE {}
                /\ Len(calls) = Cardinality(CalledLinks)

\* A session-level Flow with a positive window reached one of two links and
\* skipped the closed one.
C25_Witness ==
    /\ last_op.op = "incoming_flow"
    /\ last_op.arg.handle = None
    /\ remote_incoming_window > 0
    /\ Len(calls) = 1
    /\ Cardinality(DOMAIN link_objs) = 2

\* C26: every inbound Transfer frame of a begun session, whatever its more
\* flag and whether or not its handle is bound, adds one to next_incoming_id
\* and takes one from remote_outgoing_window and from incoming_window (which
\* is then renewed to its target if a bound handle's frame brought it to
\* zero); a frame for a bound handle is delivered to exactly that link.
C26_InboundTransfer ==
    [][(last_op'.op = "incoming_transfer" /\ last_op'.res = "ok") =>
          LET h == last_op'.arg[1]
              bound == h \in DOMAIN _input_handles
          IN  /\ next_incoming_id' = next_incoming_id + 1
              /\ remote_outgoing_window' = remote_outgoing_window - 1
              /\ incoming_window' = IF bound /\ incoming_window - 1 = 0
                                    THEN target_incoming_window
                                    ELSE incoming_window - 1
              /\ bound => calls' = <<Call(_input_handles[h], "_incoming_transfer")>>]_vars

\* A continuation frame (more = TRUE) on a bound handle was counted and
\* delivered to its link.
C26_Witness ==
    /\ last_op.op = "incoming_transfer" /\ last_op.res = "ok"
    /\ last_op.arg[2] = TRUE
    /\ last_op.arg[1] \in DOMAIN _input_handles
    /\ Len(calls) = 1
    /\ next_incoming_id >= 2

\* C27: an inbound Attach naming a link the session created itself (it is
\* registered under that name) binds the peer's handle to that link in
\* _input_handles and delivers the frame to it, whether the link accepts the
\* Attach or refuses it (it is then detached, and stays bound); no handle is
\* allocated, no link is created, links and _output_handles do not change.
C27_AttachExisting ==
    [][(/\ last_op'.op = "incoming_attach"
        /\ StrKey(last_op'.arg[1]) \in DOMAIN links) =>
          LET l == links[StrKey(last_op'.arg[1])]
              rh == last_op'.arg[2]
          IN  /\ last_op'.res = "ok"
              /\ DOMAIN _input_handles' = DOMAIN _input_handles \cup {rh}
              /\ _input_handles'[rh] = l
              /\ \A x \in DOMAIN _input_handles \ {rh} :
                     _input_handles'[x] = _input_handles[x]
              /\ \/ /\ calls' = <<Call(l, "_incoming_attach")>>
                    /\ link_objs' = link_objs
                 \/ /\ calls' = <<Call(l, "_incoming_attach"), Call(l, "detach")>>
                    /\ link_objs' = [link_objs EXCEPT ![l].detached = TRUE]
              /\ links' = links
              /\ _output_handles' = _output_handles]_vars

\* The peer's Attach for the locally created link "a" bound peer handle 1 to
\* it, and the link refused the Attach: it was detached and is still bound;
\* the session holds that one link only.
C27_Witness ==
    /\ last_op.op = "incoming_attach" /\ last_op.res = "ok"
    /\ last_op.arg[1] = "a" /\ last_op.arg[2] = 1
    /\ StrKey("a") \in DOMAIN links
    /\ _input_handles[1] = links[StrKey("a")]
    /\ calls = <<Call(links[StrKey("a")], "_incoming_attach"),
                 Call(links[StrKey("a")], "detach")>>
    /\ link_objs[links[StrKey("a")]].detached
    /\ Cardinality(DOMAIN link_objs) = 1
    /\ Cardinality(DOMAIN _output_handles) = 1

\* C28: an inbound Attach naming a link the session does not hold, a handle
\* being free, allocates one local handle, creates one link of the role
\* complementary to the peer's, delivers the frame to it, and registers it in
\* links, in _output_handles under the allocated handle and in _input_handles
\* under the peer's handle.
C28_AttachNew ==
    [][(/\ last_op'.op = "incoming_attach"
        /\ last_op'.arg[1] \notin LinkNames
        /\ Cardinality(DOMAIN _output_handles) < handle_max - 1) =>
          LET name == last_op'.arg[1]
              rh == last_op'.arg[2]
              role == last_op'.arg[3]
          IN  /\ last_op'.res = "ok"
              /\ \E h \in DOMAIN _output_handles' \ DOMAIN _output_handles,
                    id \in DOMAIN link_objs' \ DOMAIN link_objs,
                    k \in DOMAIN links' \ DOMAIN links :
                     /\ DOMAIN _output_handles' = DOMAIN _output_handles \cup {h}
                     /\ DOMAIN link_objs' = DOMAIN link_objs \cup {id}
                     /\ DOMAIN links' = DOMAIN links \cup {k}
                     /\ DOMAIN _input_handles' = DOMAIN _input_handles \cup {rh}
                     /\ link_objs'[id].name = name
                     /\ link_objs'[id].handle = h
                     /\ (role = "Sender") => link_objs'[id].role = "Receiver"
                     /\ (role = "Receiver") => link_objs'[id].role = "Sender"
                     /\ k[2] = name
                     /\ links'[k] = id
                     /\ _output_handles'[h] = id
                     /\ _input_handles'[rh] = id
                     /\ calls' = <<Call(id, "_incoming_attach")>>
              /\ \A x \in DOMAIN links : links'[x] = links[x]
              /\ \A x \in DOMAIN _output_handles : _output_handles'[x] = _output_handles[x]
              /\ \A x \in DOMAIN link_objs : link_objs'[x] = link_objs[x]]_vars

\* C29: links is keyed by link name however the link was created: an inbound
\* Attach naming any link the session holds, peer-initiated ones included,
\* finds that link and binds the peer's handle to it, without allocating a
\* handle or creating a second link.
C29_AttachByName ==
    [][(/\ last_op'.op = "incoming_attach"
        /\ last_op'.arg[1] \in LinkNames) =>
          /\ last_op'.res = "ok"
          /\ \E k \in DOMAIN links :
                 /\ k[2] = last_op'.arg[1]
                 /\ last_op'.arg[2] \in DOMAIN _input_handles'
                 /\ _input_handles'[last_op'.arg[2]] = links[k]
          /\ links' = links
          /\ _output_handles' = _output_handles
          /\ link_objs' = link_objs]_vars

\* C30: an inbound Attach that needs a new local handle when none is free
\* returns normally (no exception escapes) after detaching the link with a
\* link-detach-forced error; nothing is added to links, _output_handles or
\* _input_handles and the session state does not change.
C30_AttachExhausted ==
    [][(/\ last_op'.op = "incoming_attach"
        /\ AttachLookupKey(last_op'.arg[1]) \notin DOMAIN links
        /\ GetNextOutputHandle(_output_handles, handle_max).exc # "none") =>
          /\ last_op'.res = "ok"
          /\ Len(calls') = 1
          /\ calls'[1].call = "detach"
          /\ links' = links
          /\ _output_handles' = _output_handles
          /\ _input_handles' = _input_handles
          /\ state' = state]_vars

\* How many of the last operation's calls reached link l.
CallsTo(l) == Cardinality({i \in 1 .. Len(calls) : calls[i].link = l})

\* C31: an inbound Disposition is delivered exactly once to every link bound
\* in _input_handles and to no other link, and leaves the session's state,
\* counters, windows and handle tables unchanged.
C31_Disposition ==
    [][last_op'.op = "incoming_disposition" =>
          /\ \A i \in 1 .. Len(calls') : calls'[i].call = "_incoming_disposition"
          /\ \A l \in DOMAIN link_objs :
                 CallsTo(l)' = IF l \in Range(_input_handles) THEN 1 ELSE 0
          /\ UNCHANGED <<session_vars, link_vars>>]_vars

\* C32: every key of _output_handles is strictly less than the session's
\* current handle_max, also after an inbound Begin has replaced handle_max
\* while links created before it are still held.
C32_HandlesBelowMax ==
    \A h \in DOMAIN _output_handles : h < handle_max

\* C33: end() called while the state is UNMAPPED or DISCARDING, and an
\* inbound End received while the state is UNMAPPED, send no End frame and
\* leave the session state as it was.
C33_TerminalNoOp ==
    (\/ last_op.op = "end" /\ last_op.pre \in {"UNMAPPED", "DISCARDING"}
     \/ last_op.op = "incoming_end" /\ last_op.pre = "UNMAPPED") =>
        /\ Count(out, "end") = 0
        /\ state = last_op.pre

\* C34: next_outgoing_id and next_incoming_id (once set) are unsigned 32-bit
\* sequence counters: each stays within 0 .. UInt32Top, and a Transfer that
\* increments one of them from UInt32Top wraps it to 0.
C34_CountersWrap ==
    [][/\ next_outgoing_id' \in 0 .. UInt32Top
       /\ next_incoming_id' # None => next_incoming_id' \in 0 .. UInt32Top
       /\ (last_op'.op = "incoming_transfer" /\ last_op'.res = "ok") =>
              next_incoming_id' = (next_incoming_id + 1) % (UInt32Top + 1)
       /\ (last_op'.op = "outgoing_transfer" /\ last_op'.res = "OKAY") =>
              next_outgoing_id' = (next_outgoing_id + 1) % (UInt32Top + 1)]_vars

\* C35: incoming_window and outgoing_window are non-negative in every
\* reachable state, whatever Transfers arrive and are sent.
C35_WindowsNonNegative == incoming_window >= 0 /\ outgoing_window >= 0

\* C36: on each way from MAPPED to UNMAPPED (end() and then the peer's End;
\* the peer's End first; the Connection closing, which makes the session
\* DISCARDING, and then the peer's End) every link of links has been detached
\* by the time the state becomes UNMAPPED.
C36_DetachedBeforeUnmapped ==
    [][(/\ last_op'.op = "incoming_end"
        /\ state' = "UNMAPPED"
        /\ \/ state = "MAPPED"
           \/ last_op.op = "end" /\ last_op.pre = "MAPPED" /\ last_op.res = "ok"
           \/ /\ last_op.op = "connection_state_change"
              /\ last_op.pre = "MAPPED" /\ state = "DISCARDING")
       => \A id \in Range(links) : link_objs'[id].detached]_vars

\* A call of _outgoing_transfer with a delivery an earlier call left BUSY.
IsRetry(op) == op.op = "outgoing_transfer" /\ op.arg[1].transfer_state = "BUSY"

\* C37: a delivery refused with BUSY keeps its payload, an inbound Flow leaves
\* it as it is, and when _outgoing_transfer is called with it again on a
\* MAPPED session whose remote_incoming_window a Flow has made positive (the
\* frames having room for payload), the Transfer frames carry the whole
\* original payload and transfer_state becomes OKAY.
C37_BusyRetry ==
    [][/\ (last_op'.op = "outgoing_transfer" /\ last_op'.res = "BUSY") =>
              delivery'.payload = last_op'.arg[1].payload
       /\ (last_op'.op = "incoming_flow" /\ delivery.transfer_state = "BUSY") =>
              delivery' = delivery
       /\ (/\ IsRetry(last_op')
           /\ state = "MAPPED"
           /\ remote_incoming_window > 0
           /\ RemoteMaxFrameSize - last_op'.arg[2] - FrameHeaderSize > 0) =>
              /\ last_op'.arg[1] = delivery
              /\ last_op'.res = "OKAY"
              /\ delivery'.transfer_state = "OKAY"
              /\ ConcatPayloads(out') = delivery.payload
              /\ \A i \in 1 .. Len(out') : out'[i].type = "transfer"]_vars

\* A 13-byte delivery refused with BUSY went out whole, in several frames,
\* when it was retried after a Flow.
C37_Witness ==
    /\ IsRetry(last_op)
    /\ last_op.res = "OKAY"
    /\ last_op.pre = "MAPPED"
    /\ Len(last_op.arg[1].payload) = 13
    /\ ConcatPayloads(out) = last_op.arg[1].payload
    /\ Len(out) >= 2
    /\ delivery.transfer_state = "OKAY"

\* C38: the fragmentation loop of _outgoing_transfer ends for every payload
\* size and every frame size: no call is left inside the loop for ever, also
\* when the per-frame capacity is zero or less and the payload is not empty.
C38_LoopTerminates ==
    /\ ~hung
    /\ last_op.op = "outgoing_transfer" => last_op.res \in {"OKAY", "BUSY"}

\* C39: end() never lets an exception through: when handing the End frame to
\* the Connection, detaching a link, or polling in the wait loop raises, the
\* call returns (it is no longer waiting) and the session state is UNMAPPED.
C39_EndSwallows ==
    /\ last_op.op = "end" => last_op.res \in {"ok", "caught"}
    /\ (last_op.op = "end" /\ last_op.res = "caught") =>
           state = "UNMAPPED" /\ waiting = NotWaiting
    /\ (last_op.op = "wait_poll" /\ last_op.arg.op = "end") =>
           last_op.res = "caught" /\ state = "UNMAPPED" /\ waiting = NotWaiting

\* The first link's detach() raised inside end() on a MAPPED session: the
\* End frame had been sent, one detach() had been called, the state is UNMAPPED.
C39_Witness ==
    /\ last_op.op = "end" /\ last_op.res = "caught"
    /\ last_op.pre = "MAPPED"
    /\ Count(out, "end") = 1
    /\ Len(DetachesMade) = 1
    /\ state = "UNMAPPED"

\* C40: every link held in _output_handles or _input_handles is also a value
\* of links, and every link of links is held in _output_handles under
\* exactly one handle.
C40_TablesAgree ==
    /\ \A h \in DOMAIN _output_handles : _output_handles[h] \in Range(links)
    /\ \A h \in DOMAIN _input_handles : _input_handles[h] \in Range(links)
    /\ \A l \in Range(links) :
           Cardinality({h \in DOMAIN _output_handles : _output_handles[h] = l}) = 1
====
